---- MODULE Spec2Model ----
(***************************************************************************)
(* A model of the elevator dispatch engine: models/elevator.py (Elevator), *)
(* models/building.py (Building) and simulation/simulator.py               *)
(* (ElevatorSimulator).  Times are integers (one unit is one second),      *)
(* except the simulator's clock, a float of reduced width; every operator  *)
(* below follows the method of the same name.                              *)
(***************************************************************************)
EXTENDS Integers, Sequences, FiniteSets, TLC

VARIABLES
    floors,          \* Building.floors / Elevator.floors: the valid floor levels
    elevators,       \* Building.elevators: id -> Elevator fields, ids in insertion order
    total_requests,  \* Building.total_requests
    last,            \* history: the last call made, its arguments, return value, events
    prev,            \* history: elevators and total_requests as they were before that call
    admitted,        \* history: number of Building.add_request calls that returned True
    simulator,       \* ElevatorSimulator: tick_duration, simulation_time, tick_count, is_running
    sink,            \* the data collector: the record_events calls made and the last one's arguments
    run              \* the run loop: which loop runs, where it stands, its local variables

\* the simulation driver, which the methods of Elevator and Building leave alone
driver == <<simulator, sink, run>>

vars == <<floors, elevators, total_requests, last, prev, admitted, simulator, sink, run>>

----------------------------------------------------------------------------
(* Bounds of the model *)

\* floors are 0..MaxFloor
MaxFloor == 3
\* ticks are taken while no idle-time counter would pass MaxIdleTime
MaxIdleTime == 2
\* Building.add_request is called while total_requests < MaxRequests
MaxRequests == 3
\* the building of SpecBuilding has NumElevators elevators
NumElevators == 2
\* Building.tick is called while no idle-time counter would pass MaxBuildingIdleTime
MaxBuildingIdleTime == 4
\* passengers are added and removed while occupancy stays within MaxExcess of
\* the range 0..capacity
MaxExcess == 2
\* ElevatorSimulator.tick is called while tick_count < MaxTicks
MaxTicks == 6
\* floats keep SignificandBits significant bits (Python's keep 53)
SignificandBits == 3

----------------------------------------------------------------------------
(* Enumerations *)

DOWN == -1
IDLE == 0
UP == 1

HALL_CALL == "hall_call"
CAR_CALL == "car_call"
RequestType == {HALL_CALL, CAR_CALL}

\* capacity_threshold = 0.8, in percent
capacity_threshold == 80

\* the builtins min and max over a non-empty set
min(S) == CHOOSE x \in S : \A y \in S : x <= y
max(S) == CHOOSE x \in S : \A y \in S : x >= y
abs(x) == IF x < 0 THEN -x ELSE x

\* float('inf') and float('-inf') arithmetic, as far as get_next_floor uses it:
\* a distance is either a finite integer or +inf
Finite(v) == [inf |-> FALSE, val |-> v]
Infinite == [inf |-> TRUE, val |-> 0]
Leq(a, b) == b.inf \/ (~a.inf /\ a.val <= b.val)

----------------------------------------------------------------------------
(* Elevator *)

\* Elevator.__init__
Elevator(elevator_id, capacity) ==
    [ id |-> elevator_id,
      capacity |-> capacity,
      current_floor |-> 0,
      direction |-> IDLE,
      occupancy |-> 0,
      is_moving |-> FALSE,
      up_requests |-> {},
      down_requests |-> {},
      time_moving |-> 0,
      time_idle |-> 0,
      maintenance_threshold |-> 300,
      maintenance_rest_time |-> 30,
      maintenance_timer |-> 0,
      is_maintenance_mode |-> FALSE ]

\* mutant: the ratio compared with > instead of >=
RatioAboveThreshold(el) == el.occupancy * 100 > capacity_threshold * el.capacity

\* occupancy / capacity raises ZeroDivisionError
ratio_raises(el) == el.capacity = 0

\* occupancy / capacity >= capacity_threshold, where the division is defined;
\* dividing by a negative capacity turns the comparison round
RatioAtThreshold(el) ==
    IF el.capacity > 0
    THEN el.occupancy * 100 >= capacity_threshold * el.capacity
    ELSE el.occupancy * 100 <= capacity_threshold * el.capacity

\* mutant: add_request that turns down a floor that is already pending
add_request_once(el, floor, request_type) ==
    IF floor \notin floors THEN [ret |-> FALSE, el |-> el]
    ELSE IF floor = el.current_floor THEN [ret |-> FALSE, el |-> el]
    ELSE IF request_type = HALL_CALL /\ RatioAtThreshold(el)
        THEN [ret |-> FALSE, el |-> el]
    ELSE IF el.is_maintenance_mode THEN [ret |-> FALSE, el |-> el]
    ELSE IF floor \in el.up_requests \cup el.down_requests
        THEN [ret |-> FALSE, el |-> el]
    ELSE IF floor > el.current_floor
        THEN [ret |-> TRUE, el |-> [el EXCEPT !.up_requests = @ \cup {floor}]]
    ELSE [ret |-> TRUE, el |-> [el EXCEPT !.down_requests = @ \cup {floor}]]

\* mutant: add_request that files every floor under the upward requests
add_request_upward(el, floor, request_type) ==
    IF floor \notin floors THEN [ret |-> FALSE, el |-> el]
    ELSE IF floor = el.current_floor THEN [ret |-> FALSE, el |-> el]
    ELSE IF request_type = HALL_CALL /\ RatioAtThreshold(el)
        THEN [ret |-> FALSE, el |-> el]
    ELSE IF el.is_maintenance_mode THEN [ret |-> FALSE, el |-> el]
    ELSE [ret |-> TRUE, el |-> [el EXCEPT !.up_requests = @ \cup {floor}]]

\* mutant: add_request without the check that the floor is valid
add_request_any_floor(el, floor, request_type) ==
    IF floor = el.current_floor THEN [ret |-> FALSE, el |-> el]
    ELSE IF request_type = HALL_CALL /\ RatioAtThreshold(el)
        THEN [ret |-> FALSE, el |-> el]
    ELSE IF el.is_maintenance_mode THEN [ret |-> FALSE, el |-> el]
    ELSE IF floor > el.current_floor
        THEN [ret |-> TRUE, el |-> [el EXCEPT !.up_requests = @ \cup {floor}]]
    ELSE [ret |-> TRUE, el |-> [el EXCEPT !.down_requests = @ \cup {floor}]]

\* mutant: add_request without the check that the elevator is at the floor
add_request_at_current(el, floor, request_type) ==
    IF floor \notin floors THEN [ret |-> FALSE, el |-> el]
    ELSE IF request_type = HALL_CALL /\ RatioAtThreshold(el)
        THEN [ret |-> FALSE, el |-> el]
    ELSE IF el.is_maintenance_mode THEN [ret |-> FALSE, el |-> el]
    ELSE IF floor > el.current_floor
        THEN [ret |-> TRUE, el |-> [el EXCEPT !.up_requests = @ \cup {floor}]]
    ELSE [ret |-> TRUE, el |-> [el EXCEPT !.down_requests = @ \cup {floor}]]

\* Elevator.add_request raises: the capacity check is reached and divides by 0
add_request_raises(el, floor, request_type) ==
    /\ floor \in floors
    /\ floor # el.current_floor
    /\ request_type = HALL_CALL
    /\ ratio_raises(el)

\* Elevator.add_request: the return value and the elevator afterwards
add_request(el, floor, request_type) ==
    IF floor \notin floors THEN [ret |-> FALSE, el |-> el]
    ELSE IF floor = el.current_floor THEN [ret |-> FALSE, el |-> el]
    ELSE IF request_type = HALL_CALL /\ RatioAtThreshold(el)
        THEN [ret |-> FALSE, el |-> el]
    ELSE IF el.is_maintenance_mode THEN [ret |-> FALSE, el |-> el]
    ELSE IF floor > el.current_floor
        THEN [ret |-> TRUE, el |-> [el EXCEPT !.up_requests = @ \cup {floor}]]
    ELSE [ret |-> TRUE, el |-> [el EXCEPT !.down_requests = @ \cup {floor}]]

\* Elevator.has_requests
has_requests(el) == Cardinality(el.up_requests) > 0 \/ Cardinality(el.down_requests) > 0

\* the value None of get_next_floor is [some |-> FALSE]
NoFloor(el) == [some |-> FALSE, floor |-> 0, el |-> el]
SomeFloor(f, el) == [some |-> TRUE, floor |-> f, el |-> el]

\* mutant: the farthest floor in the direction of travel instead of the nearest
get_next_floor_farthest(el) ==
    IF el.direction = UP /\ el.up_requests # {} THEN SomeFloor(max(el.up_requests), el)
    ELSE IF el.direction = DOWN /\ el.down_requests # {}
        THEN SomeFloor(min(el.down_requests), el)
    ELSE IF el.direction = UP /\ el.down_requests # {}
        THEN SomeFloor(max(el.down_requests), [el EXCEPT !.direction = DOWN])
    ELSE IF el.direction = DOWN /\ el.up_requests # {}
        THEN SomeFloor(min(el.up_requests), [el EXCEPT !.direction = UP])
    ELSE NoFloor(el)

\* get_next_floor, lines 120-134: direction is UP or DOWN, or IDLE fell through
get_next_floor_moving(el) ==
    IF el.direction = UP /\ el.up_requests # {} THEN SomeFloor(min(el.up_requests), el)
    ELSE IF el.direction = DOWN /\ el.down_requests # {}
        THEN SomeFloor(max(el.down_requests), el)
    ELSE IF el.direction = UP /\ el.down_requests # {}
        THEN SomeFloor(max(el.down_requests), [el EXCEPT !.direction = DOWN])
    ELSE IF el.direction = DOWN /\ el.up_requests # {}
        THEN SomeFloor(min(el.up_requests), [el EXCEPT !.direction = UP])
    ELSE NoFloor(el)

\* mutant: the idle comparison with < instead of <=, so that a tie goes down
get_next_floor_tie_down(el) ==
    IF ~has_requests(el) THEN NoFloor(el)
    ELSE IF el.direction = IDLE THEN
        LET up_distance == IF el.up_requests # {}
                           THEN Finite(min(el.up_requests) - el.current_floor)
                           ELSE Infinite
            down_distance == IF el.down_requests # {}
                             THEN Finite(el.current_floor - max(el.down_requests))
                             ELSE Infinite
        IN  IF ~Leq(down_distance, up_distance) /\ el.up_requests # {}
                THEN SomeFloor(min(el.up_requests), [el EXCEPT !.direction = UP])
            ELSE IF el.down_requests # {}
                THEN SomeFloor(max(el.down_requests), [el EXCEPT !.direction = DOWN])
            ELSE get_next_floor_moving(el)
    ELSE get_next_floor_moving(el)

\* Elevator.get_next_floor: the floor returned and the elevator afterwards
get_next_floor(el) ==
    IF ~has_requests(el) THEN NoFloor(el)
    ELSE IF el.direction = IDLE THEN
        LET up_distance == IF el.up_requests # {}
                           THEN Finite(min(el.up_requests) - el.current_floor)
                           ELSE Infinite
            down_distance == IF el.down_requests # {}
                             THEN Finite(el.current_floor - max(el.down_requests))
                             ELSE Infinite
        IN  IF Leq(up_distance, down_distance) /\ el.up_requests # {}
                THEN SomeFloor(min(el.up_requests), [el EXCEPT !.direction = UP])
            ELSE IF el.down_requests # {}
                THEN SomeFloor(max(el.down_requests), [el EXCEPT !.direction = DOWN])
            ELSE get_next_floor_moving(el)
    ELSE get_next_floor_moving(el)

\* mutant: move_to_floor that takes two floors at a time while it can
move_to_floor_express(el, target_floor) ==
    IF target_floor = el.current_floor THEN [reached |-> TRUE, el |-> el]
    ELSE LET step == IF abs(target_floor - el.current_floor) >= 2 THEN 2 ELSE 1
             moved == IF target_floor > el.current_floor
                      THEN [el EXCEPT !.current_floor = @ + step, !.direction = UP,
                                      !.is_moving = TRUE]
                      ELSE [el EXCEPT !.current_floor = @ - step, !.direction = DOWN,
                                      !.is_moving = TRUE]
         IN  [reached |-> moved.current_floor = target_floor, el |-> moved]

\* mutant: move_to_floor that sets off and never changes floor
move_to_floor_staying(el, target_floor) ==
    IF target_floor = el.current_floor THEN [reached |-> TRUE, el |-> el]
    ELSE [reached |-> FALSE,
          el |-> [el EXCEPT !.direction = IF target_floor > el.current_floor
                                          THEN UP ELSE DOWN,
                            !.is_moving = TRUE]]

\* mutant: move_to_floor that goes to the target at once
move_to_floor_direct(el, target_floor) ==
    IF target_floor = el.current_floor THEN [reached |-> TRUE, el |-> el]
    ELSE [reached |-> TRUE,
          el |-> [el EXCEPT !.current_floor = target_floor,
                            !.direction = IF target_floor > el.current_floor
                                          THEN UP ELSE DOWN,
                            !.is_moving = TRUE]]

\* Elevator.move_to_floor: whether the target is reached, and the elevator afterwards
move_to_floor(el, target_floor) ==
    IF target_floor = el.current_floor THEN [reached |-> TRUE, el |-> el]
    ELSE LET moved == IF target_floor > el.current_floor
                      THEN [el EXCEPT !.current_floor = @ + 1, !.direction = UP,
                                      !.is_moving = TRUE]
                      ELSE [el EXCEPT !.current_floor = @ - 1, !.direction = DOWN,
                                      !.is_moving = TRUE]
         IN  [reached |-> moved.current_floor = target_floor, el |-> moved]

\* mutant: arrive_at_floor that leaves is_moving set when it stops
arrive_at_floor_rolling(el) ==
    LET ev1 == IF el.current_floor \in el.up_requests THEN <<"arrived_up">> ELSE <<>>
        el1 == [el EXCEPT !.up_requests = @ \ {el.current_floor}]
        ev2 == IF el1.current_floor \in el1.down_requests
               THEN Append(ev1, "arrived_down") ELSE ev1
        el2 == [el1 EXCEPT !.down_requests = @ \ {el1.current_floor}]
    IN  IF ~has_requests(el2)
        THEN [events |-> Append(ev2, "stopped"),
              el |-> [el2 EXCEPT !.direction = IDLE]]
        ELSE [events |-> ev2, el |-> el2]

\* mutant: arrive_at_floor that keeps the direction when it stops
arrive_at_floor_facing(el) ==
    LET ev1 == IF el.current_floor \in el.up_requests THEN <<"arrived_up">> ELSE <<>>
        el1 == [el EXCEPT !.up_requests = @ \ {el.current_floor}]
        ev2 == IF el1.current_floor \in el1.down_requests
               THEN Append(ev1, "arrived_down") ELSE ev1
        el2 == [el1 EXCEPT !.down_requests = @ \ {el1.current_floor}]
    IN  IF ~has_requests(el2)
        THEN [events |-> Append(ev2, "stopped"),
              el |-> [el2 EXCEPT !.is_moving = FALSE]]
        ELSE [events |-> ev2, el |-> el2]

\* mutant: arrive_at_floor that stops whether or not floors are still pending
arrive_at_floor_stopping(el) ==
    LET ev1 == IF el.current_floor \in el.up_requests THEN <<"arrived_up">> ELSE <<>>
        el1 == [el EXCEPT !.up_requests = @ \ {el.current_floor}]
        ev2 == IF el1.current_floor \in el1.down_requests
               THEN Append(ev1, "arrived_down") ELSE ev1
        el2 == [el1 EXCEPT !.down_requests = @ \ {el1.current_floor}]
    IN  [events |-> Append(ev2, "stopped"),
         el |-> [el2 EXCEPT !.is_moving = FALSE, !.direction = IDLE]]

\* mutant: arrive_at_floor that leaves the floor in down_requests
arrive_at_floor_keeping_down(el) ==
    LET ev1 == IF el.current_floor \in el.up_requests THEN <<"arrived_up">> ELSE <<>>
        el1 == [el EXCEPT !.up_requests = @ \ {el.current_floor}]
    IN  IF ~has_requests(el1)
        THEN [events |-> Append(ev1, "stopped"),
              el |-> [el1 EXCEPT !.is_moving = FALSE, !.direction = IDLE]]
        ELSE [events |-> ev1, el |-> el1]

\* Elevator.arrive_at_floor: the arrival tags and the elevator afterwards
arrive_at_floor(el) ==
    LET ev1 == IF el.current_floor \in el.up_requests THEN <<"arrived_up">> ELSE <<>>
        el1 == [el EXCEPT !.up_requests = @ \ {el.current_floor}]
        ev2 == IF el1.current_floor \in el1.down_requests
               THEN Append(ev1, "arrived_down") ELSE ev1
        el2 == [el1 EXCEPT !.down_requests = @ \ {el1.current_floor}]
    IN  IF ~has_requests(el2)
        THEN [events |-> Append(ev2, "stopped"),
              el |-> [el2 EXCEPT !.is_moving = FALSE, !.direction = IDLE]]
        ELSE [events |-> ev2, el |-> el2]

\* Elevator.tick, lines 227-262: scheduling and the one-floor step
tick_schedule(el, events) ==
    LET nf == get_next_floor(el)
    IN  IF ~nf.some THEN
            IF nf.el.is_moving
            THEN [events |-> Append(events,
                        [type |-> "became_idle", floor |-> nf.el.current_floor,
                         time_moving |-> nf.el.time_moving,
                         time_idle |-> nf.el.time_idle]),
                  el |-> [nf.el EXCEPT !.is_moving = FALSE, !.direction = IDLE]]
            ELSE [events |-> events, el |-> nf.el]
        ELSE
            LET mv == move_to_floor(nf.el, nf.floor)
                moving == [type |-> "moving",
                           from_floor |-> mv.el.current_floor - mv.el.direction,
                           to_floor |-> mv.el.current_floor,
                           direction |-> mv.el.direction,
                           target_floor |-> nf.floor]
            IN  IF mv.reached
                THEN LET ar == arrive_at_floor(mv.el)
                     IN  [events |-> events \o <<moving,
                                [type |-> "arrived", floor |-> ar.el.current_floor,
                                 arrival_events |-> ar.events,
                                 occupancy |-> ar.el.occupancy]>>,
                          el |-> ar.el]
                ELSE [events |-> Append(events, moving), el |-> mv.el]

\* mutant: a start of maintenance that drops the pending floors
tick_check_break_clearing(el, events) ==
    IF el.time_moving >= el.maintenance_threshold /\ ~el.is_maintenance_mode
    THEN [events |-> Append(events,
                [type |-> "maintenance_started", floor |-> el.current_floor,
                 reason |-> "excessive_movement"]),
          el |-> [el EXCEPT !.is_maintenance_mode = TRUE, !.maintenance_timer = 0,
                            !.time_moving = 0, !.up_requests = {},
                            !.down_requests = {}]]
    ELSE tick_schedule(el, events)

\* Elevator.tick, lines 215-225: the check that starts maintenance
tick_check_break(el, events) ==
    IF el.time_moving >= el.maintenance_threshold /\ ~el.is_maintenance_mode
    THEN [events |-> Append(events,
                [type |-> "maintenance_started", floor |-> el.current_floor,
                 reason |-> "excessive_movement"]),
          el |-> [el EXCEPT !.is_maintenance_mode = TRUE, !.maintenance_timer = 0,
                            !.time_moving = 0]]
    ELSE tick_schedule(el, events)

\* mutant: a tick that goes on to scheduling while the elevator still rests
tick_through_rest(el, delta_time) ==
    LET el1 == IF el.is_moving
               THEN [el EXCEPT !.time_moving = @ + delta_time]
               ELSE [el EXCEPT !.time_idle = @ + delta_time]
    IN  IF el1.is_maintenance_mode THEN
            LET el2 == [el1 EXCEPT !.maintenance_timer = @ + delta_time]
            IN  IF el2.maintenance_timer >= el2.maintenance_rest_time
                THEN tick_check_break(
                        [el2 EXCEPT !.is_maintenance_mode = FALSE,
                                    !.maintenance_timer = 0],
                        << [type |-> "maintenance_complete",
                            floor |-> el2.current_floor,
                            rest_time |-> el2.maintenance_rest_time] >>)
                ELSE tick_schedule(el2,
                        << [type |-> "maintenance_mode",
                            floor |-> el2.current_floor,
                            remaining_time |-> el2.maintenance_rest_time
                                               - el2.maintenance_timer] >>)
        ELSE tick_check_break(el1, <<>>)

\* Elevator.tick: the events returned and the elevator afterwards
tick(el, delta_time) ==
    LET el1 == IF el.is_moving
               THEN [el EXCEPT !.time_moving = @ + delta_time]
               ELSE [el EXCEPT !.time_idle = @ + delta_time]
    IN  IF el1.is_maintenance_mode THEN
            LET el2 == [el1 EXCEPT !.maintenance_timer = @ + delta_time]
            IN  IF el2.maintenance_timer >= el2.maintenance_rest_time
                THEN tick_check_break(
                        [el2 EXCEPT !.is_maintenance_mode = FALSE,
                                    !.maintenance_timer = 0],
                        << [type |-> "maintenance_complete",
                            floor |-> el2.current_floor,
                            rest_time |-> el2.maintenance_rest_time] >>)
                ELSE [events |-> << [type |-> "maintenance_mode",
                                     floor |-> el2.current_floor,
                                     remaining_time |-> el2.maintenance_rest_time
                                                        - el2.maintenance_timer] >>,
                      el |-> el2]
        ELSE tick_check_break(el1, <<>>)

\* Elevator.set_occupancy
set_occupancy(el, occupancy) ==
    IF occupancy < 0 \/ occupancy > el.capacity THEN [ret |-> FALSE, el |-> el]
    ELSE [ret |-> TRUE, el |-> [el EXCEPT !.occupancy = occupancy]]

\* Elevator.add_passengers
add_passengers(el, count) ==
    IF el.occupancy + count > el.capacity THEN [ret |-> FALSE, el |-> el]
    ELSE [ret |-> TRUE, el |-> [el EXCEPT !.occupancy = @ + count]]

\* Elevator.remove_passengers
remove_passengers(el, count) ==
    IF el.occupancy - count < 0 THEN [ret |-> FALSE, el |-> el]
    ELSE [ret |-> TRUE, el |-> [el EXCEPT !.occupancy = @ - count]]

\* Elevator.is_near_capacity
is_near_capacity(el) == RatioAtThreshold(el)

\* Direction.name
DirectionName(direction) ==
    CASE direction = UP -> "UP" [] direction = DOWN -> "DOWN" [] OTHER -> "IDLE"

\* list(a set of floors): the floors in the set's iteration order, which for
\* small non-negative integers is ascending
RECURSIVE list(_)
list(S) == IF S = {} THEN <<>> ELSE <<min(S)>> \o list(S \ {min(S)})

\* mutant: get_status that restarts the idle clock
get_status_resetting(el) ==
    [ret |-> [id |-> el.id, current_floor |-> el.current_floor,
              time_idle |-> el.time_idle],
     el |-> [el EXCEPT !.time_idle = 0]]

\* Elevator.get_status: the snapshot returned and the elevator afterwards;
\* capacity_ratio is given in percent, rounded down
get_status(el) ==
    [ret |-> [id |-> el.id,
              current_floor |-> el.current_floor,
              direction |-> DirectionName(el.direction),
              is_moving |-> el.is_moving,
              occupancy |-> el.occupancy,
              capacity |-> el.capacity,
              up_requests |-> list(el.up_requests),
              down_requests |-> list(el.down_requests),
              time_moving |-> el.time_moving,
              time_idle |-> el.time_idle,
              is_maintenance_mode |-> el.is_maintenance_mode,
              maintenance_timer |-> el.maintenance_timer,
              is_near_capacity |-> is_near_capacity(el),
              capacity_ratio |-> IF el.capacity > 0
                                 THEN (el.occupancy * 100) \div el.capacity
                                 ELSE 0],
     el |-> el]

----------------------------------------------------------------------------
(* Building *)

\* self.elevators.values(): the elevator ids in insertion order
ElevatorIds == [i \in 1..Len(elevators) |-> i]

\* the builtin min(list, key=...): the first element of ids with the least key;
\* key is the function from an id to its key
min_by(ids, key) ==
    ids[CHOOSE i \in 1..Len(ids) :
            /\ \A j \in 1..Len(ids) : key[ids[i]] <= key[ids[j]]
            /\ \A j \in 1..(i - 1) : key[ids[j]] > key[ids[i]]]

\* mutant: the least busy elevator, idle or not, by the number of pending floors
_find_least_busy_elevator(requested_floor) ==
    IF ElevatorIds # <<>>
    THEN min_by(ElevatorIds,
                [e \in DOMAIN elevators |->
                    IF has_requests(elevators[e])
                    THEN Cardinality(elevators[e].up_requests)
                         + Cardinality(elevators[e].down_requests)
                    ELSE 0])
    ELSE 0

\* Building._find_best_elevator: the id of the elevator chosen, 0 for None
_find_best_elevator(requested_floor) ==
    LET idle_elevators == SelectSeq(ElevatorIds, LAMBDA e : ~has_requests(elevators[e]))
        busy_elevators == SelectSeq(ElevatorIds, LAMBDA e : has_requests(elevators[e]))
    IN  IF idle_elevators # <<>>
        THEN min_by(idle_elevators,
                    [e \in DOMAIN elevators |->
                        abs(elevators[e].current_floor - requested_floor)])
        ELSE IF busy_elevators # <<>>
        THEN min_by(busy_elevators,
                    [e \in DOMAIN elevators |->
                        Cardinality(elevators[e].up_requests)
                        + Cardinality(elevators[e].down_requests)])
        ELSE 0

\* mutant: the counter incremented whenever an elevator was consulted
Building_add_request_counting_all(floor, request_type) ==
    IF floor \notin floors
    THEN [ret |-> FALSE, best |-> 0, elevators |-> elevators,
          total_requests |-> total_requests]
    ELSE LET best_elevator == _find_best_elevator(floor)
         IN  IF best_elevator # 0
             THEN LET r == add_request(elevators[best_elevator], floor, request_type)
                  IN  [ret |-> r.ret, best |-> best_elevator,
                       elevators |-> [elevators EXCEPT ![best_elevator] = r.el],
                       total_requests |-> total_requests + 1]
             ELSE [ret |-> FALSE, best |-> 0, elevators |-> elevators,
                   total_requests |-> total_requests]

\* mutant: a rejected request offered to the other elevators in turn
Building_add_request_retrying(floor, request_type) ==
    IF floor \notin floors
    THEN [ret |-> FALSE, best |-> 0, elevators |-> elevators,
          total_requests |-> total_requests]
    ELSE LET best_elevator == _find_best_elevator(floor)
             willing == { e \in DOMAIN elevators :
                            add_request(elevators[e], floor, request_type).ret }
             taker == IF best_elevator \in willing \/ willing = {}
                      THEN best_elevator ELSE min(willing)
         IN  IF taker # 0
             THEN LET r == add_request(elevators[taker], floor, request_type)
                  IN  [ret |-> r.ret, best |-> best_elevator,
                       elevators |-> [elevators EXCEPT ![taker] = r.el],
                       total_requests |-> IF r.ret THEN total_requests + 1
                                          ELSE total_requests]
             ELSE [ret |-> FALSE, best |-> 0, elevators |-> elevators,
                   total_requests |-> total_requests]

\* mutant: the request handed to every elevator
Building_add_request_broadcast(floor, request_type) ==
    IF floor \notin floors
    THEN [ret |-> FALSE, best |-> 0, elevators |-> elevators,
          total_requests |-> total_requests]
    ELSE LET best_elevator == _find_best_elevator(floor)
         IN  IF best_elevator # 0
             THEN LET r == add_request(elevators[best_elevator], floor, request_type)
                  IN  [ret |-> r.ret, best |-> best_elevator,
                       elevators |-> [e \in DOMAIN elevators |->
                            add_request(elevators[e], floor, request_type).el],
                       total_requests |-> IF r.ret THEN total_requests + 1
                                          ELSE total_requests]
             ELSE [ret |-> FALSE, best |-> 0, elevators |-> elevators,
                   total_requests |-> total_requests]

\* Building.add_request: the return value, the elevator consulted (0 for none),
\* the elevators and the counter afterwards
Building_add_request(floor, request_type) ==
    IF floor \notin floors
    THEN [ret |-> FALSE, best |-> 0, elevators |-> elevators,
          total_requests |-> total_requests]
    ELSE LET best_elevator == _find_best_elevator(floor)
         IN  IF best_elevator # 0
             THEN LET r == add_request(elevators[best_elevator], floor, request_type)
                  IN  [ret |-> r.ret, best |-> best_elevator,
                       elevators |-> [elevators EXCEPT ![best_elevator] = r.el],
                       total_requests |-> IF r.ret THEN total_requests + 1
                                          ELSE total_requests]
             ELSE [ret |-> FALSE, best |-> 0, elevators |-> elevators,
                   total_requests |-> total_requests]

\* Building.tick, lines 70-73: tag each event with the elevator id
TagEvents(events, elevator_id) ==
    [i \in 1..Len(events) |-> events[i] @@ [elevator_id |-> elevator_id]]

\* mutant: the loop putting each elevator's events before those collected so far
RECURSIVE Building_tick_loop_prepending(_, _, _, _)
Building_tick_loop_prepending(i, els, all_events, delta_time) ==
    IF i > Len(els) THEN [events |-> all_events, elevators |-> els]
    ELSE LET t == tick(els[i], delta_time)
         IN  Building_tick_loop_prepending(i + 1, [els EXCEPT ![i] = t.el],
                                TagEvents(t.events, els[i].id) \o all_events,
                                delta_time)

\* Building.tick, lines 67-73: the loop over the elevators from the i-th on
RECURSIVE Building_tick_loop(_, _, _, _)
Building_tick_loop(i, els, all_events, delta_time) ==
    IF i > Len(els) THEN [events |-> all_events, elevators |-> els]
    ELSE LET t == tick(els[i], delta_time)
         IN  Building_tick_loop(i + 1, [els EXCEPT ![i] = t.el],
                                all_events \o TagEvents(t.events, els[i].id),
                                delta_time)

\* Building.tick: the events returned and the elevators afterwards
Building_tick(delta_time) == Building_tick_loop(1, elevators, <<>>, delta_time)

\* Building.get_building_status: the snapshot returned and the elevators
\* afterwards
get_building_status ==
    [ret |-> [total_elevators |-> Len(elevators),
              total_requests |-> total_requests,
              elevators |-> [e \in DOMAIN elevators |-> get_status(elevators[e]).ret],
              floors |-> floors],
     elevators |-> [e \in DOMAIN elevators |-> get_status(elevators[e]).el]]

----------------------------------------------------------------------------
(* ElevatorSimulator *)

\* the unit in the last place of a float of magnitude x: the least power of two
\* u, from u0 on, with x < u * 2^SignificandBits
RECURSIVE ulp(_, _)
ulp(x, u0) == IF x < u0 * 2^SignificandBits THEN u0 ELSE ulp(x, 2 * u0)

\* the float nearest to the number x >= 0, ties going to the even significand
float(x) ==
    LET u == ulp(x, 1)
        q == x \div u
        r == x % u
    IN  IF 2 * r < u THEN q * u
        ELSE IF 2 * r > u THEN (q + 1) * u
        ELSE IF q % 2 = 0 THEN q * u
        ELSE (q + 1) * u

\* a + b and a * b on floats: the exact result, rounded
float_add(a, b) == float(a + b)
float_mul(a, b) == float(a * b)

\* SQLiteDataCollector.record_events: the collector afterwards
record_events(snk, events, building_status) ==
    IF events = <<>> THEN snk
    ELSE [snk EXCEPT !.calls = @ + 1, !.events = events,
                     !.building_status = building_status]

\* SQLiteDataCollector.record_request: the collector afterwards
record_request(snk) == [snk EXCEPT !.requests = @ + 1]

\* mutant: the clock computed as the product tick_count * tick_duration
advance_product(sim) ==
    [sim EXCEPT !.simulation_time = float_mul(sim.tick_count + 1, sim.tick_duration),
                !.tick_count = @ + 1]

\* ElevatorSimulator.tick, lines 51-53: the simulator afterwards
advance(sim) ==
    [sim EXCEPT !.simulation_time = float_add(@, sim.tick_duration),
                !.tick_count = @ + 1]

----------------------------------------------------------------------------
(* The state machine *)

\* the floors a caller may ask for: the valid ones and one beyond either end
RequestFloors == (-1)..(MaxFloor + 1)

\* SIMULATION_CONFIG['tick_duration']
tick_duration == 1

\* the tick lengths handed to tick: tick_duration and twice that
DeltaTimes == {tick_duration, 2 * tick_duration}

\* (maintenance_threshold, maintenance_rest_time) set on the elevators, as the
\* tests set them after construction
MaintenanceSettings == { <<3, 1>>, <<2, 2>> }

\* the occupancies a caller sets on an elevator of capacity c
OccupancyInputs(c) == {-1, 0, c - 2, c - 1, c, c + 1}

Call(op, elevator, arg, kind, ret, events) ==
    [op |-> op, elevator |-> elevator, arg |-> arg, kind |-> kind, ret |-> ret,
     events |-> events, raised |-> "none"]

\* the record of a call that raised an exception and returned nothing
Raised(op, elevator, arg, kind, exception) ==
    [Call(op, elevator, arg, kind, FALSE, <<>>) EXCEPT !.raised = exception]

Snapshot ==
    [elevators |-> elevators, total_requests |-> total_requests,
     simulator |-> simulator, sink |-> sink]

Configure(el, setting) ==
    [el EXCEPT !.maintenance_threshold = setting[1],
               !.maintenance_rest_time = setting[2]]

\* ElevatorSimulator.__init__
ElevatorSimulator(tick_duration_) ==
    [tick_duration |-> tick_duration_, simulation_time |-> 0, tick_count |-> 0,
     is_running |-> FALSE]

\* a data collector that has recorded nothing
NoRecords == [calls |-> 0, events |-> <<>>, building_status |-> <<>>, requests |-> 0]

\* no run loop is executing
NoRun == [loop |-> "none", pc |-> "none", events |-> <<>>, requests |-> <<>>,
          stopped |-> FALSE, late |-> FALSE]

InitDriver(tick_duration_) ==
    /\ simulator = ElevatorSimulator(tick_duration_)
    /\ sink = NoRecords
    /\ run = NoRun

InitWith(n, capacities, settings) ==
    /\ InitDriver(tick_duration)
    /\ floors = 0..MaxFloor
    /\ \E c \in capacities, s \in settings :
            elevators = [i \in 1..n |-> Configure(Elevator(i, c), s)]
    /\ total_requests = 0
    /\ admitted = 0
    /\ last = Call("init", 0, 0, "", TRUE, <<>>)
    /\ prev = Snapshot

\* a direct call of Elevator.add_request on elevator e
ElevatorAddRequest(e, floor, request_type) ==
    /\ IF add_request_raises(elevators[e], floor, request_type)
       THEN /\ UNCHANGED elevators
            /\ last' = Raised("Elevator.add_request", e, floor, request_type,
                              "ZeroDivisionError")
       ELSE LET r == add_request(elevators[e], floor, request_type)
            IN  /\ elevators' = [elevators EXCEPT ![e] = r.el]
                /\ last' = Call("Elevator.add_request", e, floor, request_type,
                                r.ret, <<>>)
    /\ prev' = Snapshot
    /\ UNCHANGED <<floors, total_requests, admitted, driver>>

\* a direct call of Elevator.tick on elevator e
ElevatorTick(e, delta_time) ==
    /\ ~elevators[e].is_moving => elevators[e].time_idle + delta_time <= MaxIdleTime
    /\ LET r == tick(elevators[e], delta_time)
       IN  /\ elevators' = [elevators EXCEPT ![e] = r.el]
           /\ last' = Call("Elevator.tick", e, delta_time, "", TRUE, r.events)
    /\ prev' = Snapshot
    /\ UNCHANGED <<floors, total_requests, admitted, driver>>

\* a call of Elevator.set_occupancy on elevator e
SetOccupancy(e, occupancy) ==
    /\ LET r == set_occupancy(elevators[e], occupancy)
       IN  /\ elevators' = [elevators EXCEPT ![e] = r.el]
           /\ last' = Call("Elevator.set_occupancy", e, occupancy, "", r.ret, <<>>)
    /\ prev' = Snapshot
    /\ UNCHANGED <<floors, total_requests, admitted, driver>>

\* the passenger counts a caller adds to or removes from an elevator of capacity c
PassengerCounts(c) == {-2, -1, 0, 1, c, c + 1}

\* a call of Elevator.add_passengers on elevator e
AddPassengers(e, count) ==
    /\ LET r == add_passengers(elevators[e], count)
       IN  /\ r.el.occupancy >= -MaxExcess
           /\ r.el.occupancy <= r.el.capacity + MaxExcess
           /\ elevators' = [elevators EXCEPT ![e] = r.el]
           /\ last' = Call("Elevator.add_passengers", e, count, "", r.ret, <<>>)
    /\ prev' = Snapshot
    /\ UNCHANGED <<floors, total_requests, admitted, driver>>

\* a call of Elevator.remove_passengers on elevator e
RemovePassengers(e, count) ==
    /\ LET r == remove_passengers(elevators[e], count)
       IN  /\ r.el.occupancy >= -MaxExcess
           /\ r.el.occupancy <= r.el.capacity + MaxExcess
           /\ elevators' = [elevators EXCEPT ![e] = r.el]
           /\ last' = Call("Elevator.remove_passengers", e, count, "", r.ret, <<>>)
    /\ prev' = Snapshot
    /\ UNCHANGED <<floors, total_requests, admitted, driver>>

\* the idle clock as kept where ticking goes on for ever: time_idle is reported
\* in events and in get_status and read by no condition, and it is kept at
\* MaxIdleTime once it has passed it
CapIdle(el) == [el EXCEPT !.time_idle = IF @ > MaxIdleTime THEN MaxIdleTime ELSE @]

\* a direct call of Elevator.tick on elevator e, possible in every state
LiveTick(e, delta_time) ==
    /\ \E r \in {tick(elevators[e], delta_time)} :
           /\ elevators' = [elevators EXCEPT ![e] = CapIdle(r.el)]
           /\ last' = Call("Elevator.tick", e, delta_time, "", TRUE, r.events)
    /\ prev' = Snapshot
    /\ UNCHANGED <<floors, total_requests, admitted, driver>>

\* a call of Elevator.get_status on elevator e
GetStatus(e) ==
    /\ IF ratio_raises(elevators[e])
       THEN /\ UNCHANGED elevators
            /\ last' = Raised("Elevator.get_status", e, 0, "", "ZeroDivisionError")
       ELSE LET r == get_status(elevators[e])
            IN  /\ elevators' = [elevators EXCEPT ![e] = r.el]
                /\ last' = Call("Elevator.get_status", e, 0, "", r.ret, <<>>)
    /\ prev' = Snapshot
    /\ UNCHANGED <<floors, total_requests, admitted, driver>>

\* a call of Elevator.is_near_capacity on elevator e
IsNearCapacity(e) ==
    /\ last' = IF ratio_raises(elevators[e])
               THEN Raised("Elevator.is_near_capacity", e, 0, "", "ZeroDivisionError")
               ELSE Call("Elevator.is_near_capacity", e, 0, "",
                         is_near_capacity(elevators[e]), <<>>)
    /\ prev' = Snapshot
    /\ UNCHANGED <<floors, elevators, total_requests, admitted, driver>>

\* a call of Building.get_building_status
GetBuildingStatus ==
    /\ LET r == get_building_status
       IN  /\ elevators' = r.elevators
           /\ last' = Call("Building.get_building_status", 0, 0, "", r.ret, <<>>)
    /\ prev' = Snapshot
    /\ UNCHANGED <<floors, total_requests, admitted, driver>>

\* a call of ElevatorSimulator.add_request
SimulatorAddRequest(floor, request_type) ==
    /\ total_requests < MaxRequests
    /\ LET r == Building_add_request(floor, request_type)
       IN  /\ elevators' = r.elevators
           /\ total_requests' = r.total_requests
           /\ admitted' = IF r.ret THEN admitted + 1 ELSE admitted
           /\ sink' = IF r.ret THEN record_request(sink) ELSE sink
           /\ last' = Call("ElevatorSimulator.add_request", r.best, floor,
                           request_type, r.ret, <<>>)
    /\ prev' = Snapshot
    /\ UNCHANGED <<floors, simulator, run>>

\* a call of ElevatorSimulator.tick
SimulatorTick ==
    /\ simulator.tick_count < MaxTicks
    /\ LET r == Building_tick(simulator.tick_duration)
       IN  /\ elevators' = r.elevators
           /\ UNCHANGED <<floors, total_requests>>
           /\ sink' = IF r.events # <<>>
                      THEN record_events(sink, r.events, get_building_status'.ret)
                      ELSE sink
           /\ simulator' = advance(simulator)
           /\ last' = Call("ElevatorSimulator.tick", 0, simulator.tick_duration, "",
                           TRUE, r.events)
    /\ prev' = Snapshot
    /\ UNCHANGED <<admitted, run>>

\* the floors a scenario requests, in order (main.py asks for 3, 2, 1, 0)
Scenario == <<3, 1>>

\* a call of ElevatorSimulator.run_simulation begins
EnterRunSimulation ==
    /\ run.loop = "none"
    /\ simulator.tick_count < MaxTicks
    /\ run' = [NoRun EXCEPT !.loop = "run_simulation", !.pc = "start"]
    /\ UNCHANGED <<floors, elevators, total_requests, admitted, simulator, sink,
                   last, prev>>

\* run_simulation, line 64
RunSimulationStart ==
    /\ run.loop = "run_simulation" /\ run.pc = "start"
    /\ simulator' = [simulator EXCEPT !.is_running = TRUE]
    /\ run' = [run EXCEPT !.pc = "head"]
    /\ UNCHANGED <<floors, elevators, total_requests, admitted, sink, last, prev>>

\* run_simulation, line 69: the loop condition; the wall clock may have run
\* out at any evaluation
RunSimulationHead ==
    /\ run.loop = "run_simulation" /\ run.pc = "head"
    /\ \/ /\ simulator.is_running
          /\ simulator.tick_count < MaxTicks
          /\ run' = [run EXCEPT !.pc = "request", !.late = run.stopped]
       \/ run' = [run EXCEPT !.pc = "exit"]
    /\ UNCHANGED <<floors, elevators, total_requests, admitted, simulator, sink,
                   last, prev>>

\* run_simulation, lines 71-78: a request for a random floor when
\* request_frequency seconds have passed
RunSimulationRequest ==
    /\ run.loop = "run_simulation" /\ run.pc = "request"
    /\ \/ UNCHANGED <<elevators, total_requests, admitted, sink>>
       \/ /\ total_requests < MaxRequests
          /\ \E floor \in floors :
                LET r == Building_add_request(floor, HALL_CALL)
                IN  /\ elevators' = r.elevators
                    /\ total_requests' = r.total_requests
                    /\ admitted' = IF r.ret THEN admitted + 1 ELSE admitted
                    /\ sink' = IF r.ret THEN record_request(sink) ELSE sink
    /\ run' = [run EXCEPT !.pc = "tick"]
    /\ UNCHANGED <<floors, simulator, last, prev>>

\* ElevatorSimulator.tick called by a run loop, line 44
RunTickBuilding ==
    /\ run.loop # "none" /\ run.pc = "tick"
    /\ LET r == Building_tick(simulator.tick_duration)
       IN  /\ elevators' = r.elevators
           /\ run' = [run EXCEPT !.pc = "record", !.events = r.events]
    /\ UNCHANGED <<floors, total_requests, admitted, simulator, sink, last, prev>>

\* ElevatorSimulator.tick called by a run loop, lines 47-49
RunTickRecord ==
    /\ run.loop # "none" /\ run.pc = "record"
    /\ sink' = IF run.events # <<>>
               THEN record_events(sink, run.events, get_building_status.ret)
               ELSE sink
    /\ run' = [run EXCEPT !.pc = "advance"]
    /\ UNCHANGED <<floors, elevators, total_requests, admitted, simulator, last, prev>>

\* ElevatorSimulator.tick called by a run loop, lines 51-55; the loop then
\* sleeps, which changes nothing
RunTickAdvance ==
    /\ run.loop # "none" /\ run.pc = "advance"
    /\ simulator' = advance(simulator)
    /\ run' = [run EXCEPT !.pc = IF run.loop = "run_simulation" THEN "head" ELSE "check",
                          !.events = <<>>]
    /\ UNCHANGED <<floors, elevators, total_requests, admitted, sink, last, prev>>

\* run_simulation, lines 92-98
RunSimulationExit ==
    /\ run.loop = "run_simulation" /\ run.pc = "exit"
    /\ simulator' = [simulator EXCEPT !.is_running = FALSE]
    /\ run' = NoRun
    /\ UNCHANGED <<floors, elevators, total_requests, admitted, sink, last, prev>>

\* a call of ElevatorSimulator.run_scenario begins
EnterRunScenario ==
    /\ run.loop = "none"
    /\ simulator.tick_count < MaxTicks
    /\ total_requests + Len(Scenario) <= MaxRequests
    /\ run' = [NoRun EXCEPT !.loop = "run_scenario", !.pc = "next",
                            !.requests = Scenario]
    /\ UNCHANGED <<floors, elevators, total_requests, admitted, simulator, sink,
                   last, prev>>

\* run_scenario, lines 111-120: the next request is added, or the call returns
RunScenarioNext ==
    /\ run.loop = "run_scenario" /\ run.pc = "next"
    /\ IF run.requests = <<>>
       THEN /\ run' = NoRun
            /\ UNCHANGED <<elevators, total_requests, admitted, sink>>
       ELSE LET r == Building_add_request(Head(run.requests), HALL_CALL)
            IN  /\ elevators' = r.elevators
                /\ total_requests' = r.total_requests
                /\ admitted' = IF r.ret THEN admitted + 1 ELSE admitted
                /\ sink' = IF r.ret THEN record_request(sink) ELSE sink
                /\ run' = [run EXCEPT !.pc = "while", !.requests = Tail(@)]
    /\ UNCHANGED <<floors, simulator, last, prev>>

\* run_scenario, line 123: the loop condition; the 30 seconds may have passed
\* at any evaluation
RunScenarioWhile ==
    /\ run.loop = "run_scenario" /\ run.pc = "while"
    /\ \/ /\ simulator.tick_count < MaxTicks
          /\ run' = [run EXCEPT !.pc = "tick", !.late = run.stopped]
       \/ run' = [run EXCEPT !.pc = "next"]
    /\ UNCHANGED <<floors, elevators, total_requests, admitted, simulator, sink,
                   last, prev>>

\* run_scenario, lines 127-137
RunScenarioCheck ==
    /\ run.loop = "run_scenario" /\ run.pc = "check"
    /\ LET building_status == get_building_status.ret
           all_idle == \A e \in DOMAIN building_status.elevators :
                            /\ building_status.elevators[e].up_requests = <<>>
                            /\ building_status.elevators[e].down_requests = <<>>
       IN  run' = [run EXCEPT !.pc = IF all_idle THEN "next" ELSE "while"]
    /\ UNCHANGED <<floors, elevators, total_requests, admitted, simulator, sink,
                   last, prev>>

\* a call of ElevatorSimulator.stop_simulation, from another thread
StopSimulation ==
    /\ simulator' = [simulator EXCEPT !.is_running = FALSE]
    /\ run' = [run EXCEPT !.stopped = @ \/ (run.loop # "none" /\ run.pc # "start")]
    /\ UNCHANGED <<floors, elevators, total_requests, admitted, sink, last, prev>>

\* a call of Building.add_request
BuildingAddRequest(floor, request_type) ==
    /\ total_requests < MaxRequests
    /\ LET r == Building_add_request(floor, request_type)
       IN  /\ elevators' = r.elevators
           /\ total_requests' = r.total_requests
           /\ admitted' = IF r.ret THEN admitted + 1 ELSE admitted
           /\ last' = Call("Building.add_request", r.best, floor, request_type,
                           r.ret, <<>>)
    /\ prev' = Snapshot
    /\ UNCHANGED <<floors, driver>>

\* a call of Building.tick
BuildingTick(delta_time) ==
    /\ \A e \in DOMAIN elevators :
            ~elevators[e].is_moving =>
                elevators[e].time_idle + delta_time <= MaxBuildingIdleTime
    /\ LET r == Building_tick(delta_time)
       IN  /\ elevators' = r.elevators
           /\ last' = Call("Building.tick", 0, delta_time, "", TRUE, r.events)
    /\ prev' = Snapshot
    /\ UNCHANGED <<floors, total_requests, admitted, driver>>

----------------------------------------------------------------------------
(* Spec: one elevator driven through its own methods *)

\* one elevator of capacity 1, either maintenance setting
Init == InitWith(1, {1}, MaintenanceSettings)

Next ==
    \/ \E e \in DOMAIN elevators, f \in RequestFloors, k \in RequestType :
            ElevatorAddRequest(e, f, k)
    \/ \E e \in DOMAIN elevators, dt \in DeltaTimes : ElevatorTick(e, dt)
    \/ \E e \in DOMAIN elevators :
            \E n \in OccupancyInputs(elevators[e].capacity) : SetOccupancy(e, n)

Spec == Init /\ [][Next]_vars

(* SpecCapacity: the same, with the capacities 5 and 8 *)

InitCapacity == InitWith(1, {5, 8}, { <<3, 1>> })

SpecCapacity == InitCapacity /\ [][Next]_vars

(* SpecBuilding: a building of NumElevators elevators driven through Building *)

InitBuilding == InitWith(NumElevators, {1}, { <<3, 1>> })

NextBuilding ==
    \/ \E f \in RequestFloors, k \in RequestType : BuildingAddRequest(f, k)
    \/ \E dt \in DeltaTimes : BuildingTick(dt)

SpecBuilding == InitBuilding /\ [][NextBuilding]_vars

(* SpecFloors: one elevator, over floor lists with a gap or without floor 0 *)

\* the floor lists handed to Elevator.__init__: contiguous from 0, with floor 1
\* missing, and without floor 0
FloorLists == { 0..MaxFloor, (0..MaxFloor) \ {1}, 1..MaxFloor }

InitFloors ==
    /\ InitDriver(tick_duration)
    /\ floors \in FloorLists
    /\ elevators = [i \in 1..1 |-> Configure(Elevator(i, 1), <<3, 1>>)]
    /\ total_requests = 0
    /\ admitted = 0
    /\ last = Call("init", 0, 0, "", TRUE, <<>>)
    /\ prev = Snapshot

SpecFloors == InitFloors /\ [][Next]_vars

(* SpecOccupancy: one elevator whose occupancy is set, raised and lowered *)

InitOccupancy == InitWith(1, {2, 3}, { <<3, 1>> })

NextOccupancy ==
    \/ \E e \in DOMAIN elevators :
            \E n \in OccupancyInputs(elevators[e].capacity) : SetOccupancy(e, n)
    \/ \E e \in DOMAIN elevators :
            \E n \in PassengerCounts(elevators[e].capacity) : AddPassengers(e, n)
    \/ \E e \in DOMAIN elevators :
            \E n \in PassengerCounts(elevators[e].capacity) : RemovePassengers(e, n)

SpecOccupancy == InitOccupancy /\ [][NextOccupancy]_vars

(* SpecService: one elevator that is ticked while requests keep coming *)

\* maintenance_threshold = 300.0 and maintenance_rest_time = 30.0, the defaults,
\* both divided by ten
DefaultSetting == <<30, 3>>

InitLive == InitWith(1, {1}, { DefaultSetting })

\* the ticks of the run loop, each of tick_duration
Ticking == \E e \in DOMAIN elevators : LiveTick(e, tick_duration)

NextLive ==
    \/ \E e \in DOMAIN elevators, f \in floors, k \in RequestType :
            ElevatorAddRequest(e, f, k)
    \/ Ticking

SpecService == InitLive /\ [][NextLive]_vars

(* SpecLive: the same under the run loop, which calls tick on every iteration: *)
(* a tick that changes something is not put off for ever                      *)

SpecLive == SpecService /\ WF_vars(Ticking)

(* SpecStatus: the building of SpecBuilding, with its snapshots read *)

NextStatus ==
    \/ \E f \in RequestFloors, k \in RequestType : BuildingAddRequest(f, k)
    \/ \E dt \in DeltaTimes : BuildingTick(dt)
    \/ \E e \in DOMAIN elevators : GetStatus(e)
    \/ GetBuildingStatus

SpecStatus == InitBuilding /\ [][NextStatus]_vars

(* SpecSimulator: a simulator over a building of one elevator, as main.py *)
(* sets it up, stepped by its caller                                        *)

\* the tick durations: the configured one, and one whose multiples are not all
\* floats
TickDurations == {tick_duration, 5 * tick_duration}

InitSimulator ==
    /\ \E d \in TickDurations : simulator = ElevatorSimulator(d)
    /\ sink = NoRecords
    /\ run = NoRun
    /\ floors = 0..MaxFloor
    /\ elevators = [i \in 1..1 |-> Elevator(i, 8)]
    /\ total_requests = 0
    /\ admitted = 0
    /\ last = Call("init", 0, 0, "", TRUE, <<>>)
    /\ prev = Snapshot

NextSimulator ==
    \/ \E f \in RequestFloors, k \in RequestType : SimulatorAddRequest(f, k)
    \/ SimulatorTick

SpecSimulator == InitSimulator /\ [][NextSimulator]_vars

(* SpecRun: the simulator of main.py inside its run loops, with            *)
(* stop_simulation called from another thread                               *)

InitRun == InitWith(1, {8}, { DefaultSetting })

NextRun ==
    \/ EnterRunSimulation
    \/ RunSimulationStart
    \/ RunSimulationHead
    \/ RunSimulationRequest
    \/ RunSimulationExit
    \/ EnterRunScenario
    \/ RunScenarioNext
    \/ RunScenarioWhile
    \/ RunScenarioCheck
    \/ RunTickBuilding
    \/ RunTickRecord
    \/ RunTickAdvance
    \/ StopSimulation

SpecRun == InitRun /\ [][NextRun]_vars

(* SpecDispatch: buildings of no and of two elevators, whose occupancy changes *)

\* the numbers of elevators handed to Building.__init__
ElevatorCounts == {0, NumElevators}

InitDispatch == \E n \in ElevatorCounts : InitWith(n, {1}, { <<3, 1>> })

NextDispatch ==
    \/ \E f \in RequestFloors, k \in RequestType : BuildingAddRequest(f, k)
    \/ \E dt \in DeltaTimes : BuildingTick(dt)
    \/ \E e \in DOMAIN elevators, o \in {0, 1} : SetOccupancy(e, o)

SpecDispatch == InitDispatch /\ [][NextDispatch]_vars

(* SpecConstruct: one elevator constructed from any capacity and floor list *)

\* the capacities and floor lists handed to the constructors
CapacityInputs == {-1, 0, 8}
FloorInputs == { {}, 0..MaxFloor }

InitConstruct ==
    /\ InitDriver(tick_duration)
    /\ floors \in FloorInputs
    /\ \E c \in CapacityInputs, s \in MaintenanceSettings :
            elevators = [i \in 1..1 |-> Configure(Elevator(i, c), s)]
    /\ total_requests = 0
    /\ admitted = 0
    /\ last = Call("init", 0, 0, "", TRUE, <<>>)
    /\ prev = Snapshot

NextConstruct ==
    \/ \E f \in RequestFloors, k \in RequestType : ElevatorAddRequest(1, f, k)
    \/ ElevatorTick(1, tick_duration)
    \/ GetStatus(1)
    \/ IsNearCapacity(1)

SpecConstruct == InitConstruct /\ [][NextConstruct]_vars

----------------------------------------------------------------------------
(* The claims *)

\* the floors pending in an elevator
Pending(el) == el.up_requests \cup el.down_requests

\* the last call was made on elevator e (a direct call on it)
LastOn(op, e) == last.op = op /\ last.elevator = e

\* the events of the given type that the last call returned
LastEvents(type) == { i \in 1..Len(last.events) : last.events[i].type = type }

\* C1: for every floor outside the floor set and both request kinds,
\* Elevator.add_request and Building.add_request return False and change no
\* field of any elevator nor the building's counter.
C1_InvalidFloorRejected ==
    /\ \A f \in RequestFloors \ floors, k \in RequestType :
        /\ \A e \in DOMAIN elevators :
                add_request(elevators[e], f, k) = [ret |-> FALSE, el |-> elevators[e]]
        /\ LET r == Building_add_request(f, k)
           IN  /\ ~r.ret
               /\ r.elevators = elevators
               /\ r.total_requests = total_requests
    /\ (last.op = "Elevator.add_request" /\ last.arg \notin floors) =>
            /\ ~last.ret
            /\ elevators = prev.elevators
            /\ total_requests = prev.total_requests

\* C1 witness: a request for an invalid floor was rejected by a moving elevator
\* that has pending floors
C1_Witness ==
    /\ last.op = "Elevator.add_request"
    /\ last.arg \notin floors
    /\ ~last.ret
    /\ elevators[last.elevator].is_moving
    /\ Pending(elevators[last.elevator]) # {}

\* C2: in every reachable state and for both kinds, Elevator.add_request for
\* the elevator's current floor returns False and adds nothing to either
\* pending set.
C2_CurrentFloorRejected ==
    /\ \A e \in DOMAIN elevators, k \in RequestType :
            add_request(elevators[e], elevators[e].current_floor, k)
                = [ret |-> FALSE, el |-> elevators[e]]
    /\ \A e \in DOMAIN elevators :
            (LastOn("Elevator.add_request", e)
                /\ last.arg = prev.elevators[e].current_floor) =>
                    ~last.ret /\ elevators = prev.elevators

\* C2 witness: a car call for the current floor was rejected by an elevator that
\* is out of maintenance, travelling, and away from floor 0
C2_Witness ==
    \E e \in DOMAIN elevators :
        /\ LastOn("Elevator.add_request", e)
        /\ last.kind = CAR_CALL
        /\ last.arg = prev.elevators[e].current_floor
        /\ ~last.ret
        /\ ~elevators[e].is_maintenance_mode
        /\ elevators[e].direction # IDLE
        /\ elevators[e].current_floor > 0

\* C10: in every reachable state the two pending sets of an elevator are
\* disjoint and neither contains the elevator's current floor.
C10_PendingDisjoint ==
    \A e \in DOMAIN elevators :
        /\ elevators[e].up_requests \cap elevators[e].down_requests = {}
        /\ elevators[e].current_floor \notin Pending(elevators[e])

\* C10 witness: a tick arrived at a floor while floors are pending on both sides
C10_Witness ==
    \E e \in DOMAIN elevators :
        /\ LastOn("Elevator.tick", e)
        /\ LastEvents("arrived") # {}
        /\ elevators[e].up_requests # {}
        /\ elevators[e].down_requests # {}

\* C3: for an elevator out of maintenance with 0 <= occupancy <= capacity and a
\* valid floor other than the current one, a hall call is admitted if and only
\* if 5 * occupancy < 4 * capacity, and a car call is always admitted; an
\* admitted floor is pending afterwards.
C3_CapacityRule ==
    \A e \in DOMAIN elevators :
        LET el == elevators[e]
            before == prev.elevators[e]
        IN  /\ (~el.is_maintenance_mode /\ 0 <= el.occupancy
                    /\ el.occupancy <= el.capacity) =>
                \A f \in floors \ {el.current_floor} :
                    LET hall == add_request(el, f, HALL_CALL)
                        car == add_request(el, f, CAR_CALL)
                    IN  /\ hall.ret <=> 5 * el.occupancy < 4 * el.capacity
                        /\ hall.ret => f \in Pending(hall.el)
                        /\ ~hall.ret => hall.el = el
                        /\ car.ret
                        /\ f \in Pending(car.el)
            /\ (LastOn("Elevator.add_request", e) /\ ~before.is_maintenance_mode
                    /\ last.arg \in floors \ {before.current_floor}) =>
                /\ last.ret <=> (last.kind = CAR_CALL
                                    \/ 5 * before.occupancy < 4 * before.capacity)
                /\ last.ret => last.arg \in Pending(el)
                /\ ~last.ret => el = before

\* C3 witness: with occupancy 7 of capacity 8 a car call was admitted
C3_Witness ==
    \E e \in DOMAIN elevators :
        /\ LastOn("Elevator.add_request", e)
        /\ last.kind = CAR_CALL
        /\ last.ret
        /\ elevators[e].occupancy = 7
        /\ elevators[e].capacity = 8
        /\ ~add_request(elevators[e], last.arg, HALL_CALL).ret

\* C5 as stated: an elevator in maintenance rejects every request, and every
\* tick that begins with the maintenance flag set leaves current_floor and both
\* pending sets unchanged.
C5_Original ==
    \A e \in DOMAIN elevators :
        /\ elevators[e].is_maintenance_mode =>
                \A f \in RequestFloors, k \in RequestType :
                    add_request(elevators[e], f, k) = [ret |-> FALSE, el |-> elevators[e]]
        /\ (LastOn("Elevator.tick", e) /\ prev.elevators[e].is_maintenance_mode) =>
                /\ elevators[e].current_floor = prev.elevators[e].current_floor
                /\ elevators[e].up_requests = prev.elevators[e].up_requests
                /\ elevators[e].down_requests = prev.elevators[e].down_requests

\* C5 amended: an elevator in maintenance rejects every request of either kind,
\* and every tick that begins with the maintenance flag set and after which the
\* elevator is still in maintenance leaves current_floor and both pending sets
\* unchanged (the tick that completes the rest goes on to scheduling).
C5_NoMovementWhileResting ==
    \A e \in DOMAIN elevators :
        /\ elevators[e].is_maintenance_mode =>
                \A f \in RequestFloors, k \in RequestType :
                    add_request(elevators[e], f, k) = [ret |-> FALSE, el |-> elevators[e]]
        /\ (LastOn("Elevator.add_request", e) /\ prev.elevators[e].is_maintenance_mode) =>
                ~last.ret /\ elevators = prev.elevators
        /\ (LastOn("Elevator.tick", e) /\ prev.elevators[e].is_maintenance_mode
                /\ elevators[e].is_maintenance_mode) =>
                /\ elevators[e].current_floor = prev.elevators[e].current_floor
                /\ elevators[e].up_requests = prev.elevators[e].up_requests
                /\ elevators[e].down_requests = prev.elevators[e].down_requests

\* C5 witness: a tick began and ended in maintenance with floors pending
C5_Witness ==
    \E e \in DOMAIN elevators :
        /\ LastOn("Elevator.tick", e)
        /\ prev.elevators[e].is_maintenance_mode
        /\ elevators[e].is_maintenance_mode
        /\ LastEvents("maintenance_mode") # {}
        /\ Pending(elevators[e]) # {}

\* C6: an elevator going UP does not turn DOWN while upward floors are pending
\* (and symmetrically); a tick of an elevator travelling in a direction with
\* floors pending there targets the nearest of them; and a floor leaves a
\* pending set only as the nearest one of that set, so the floors of one
\* direction are served in order of distance.
C6_ScanOrder ==
    \A e \in DOMAIN elevators :
        LET before == prev.elevators[e]
            after == elevators[e]
        IN  /\ (before.direction = UP /\ before.up_requests # {}) =>
                    after.direction # DOWN
            /\ (before.direction = DOWN /\ before.down_requests # {}) =>
                    after.direction # UP
            /\ LastOn("Elevator.tick", e) =>
                \A i \in LastEvents("moving") :
                    /\ (before.direction = UP /\ before.up_requests # {}) =>
                            /\ last.events[i].target_floor = min(before.up_requests)
                            /\ last.events[i].direction = UP
                    /\ (before.direction = DOWN /\ before.down_requests # {}) =>
                            /\ last.events[i].target_floor = max(before.down_requests)
                            /\ last.events[i].direction = DOWN
            /\ \A f \in before.up_requests \ after.up_requests :
                    f = min(before.up_requests) /\ f = after.current_floor
            /\ \A f \in before.down_requests \ after.down_requests :
                    f = max(before.down_requests) /\ f = after.current_floor

\* C6 witness: going UP with two upward floors and a downward floor pending, a
\* tick arrived at the nearer upward floor and the elevator still goes UP
C6_Witness ==
    \E e \in DOMAIN elevators :
        /\ LastOn("Elevator.tick", e)
        /\ prev.elevators[e].direction = UP
        /\ Cardinality(prev.elevators[e].up_requests) >= 2
        /\ prev.elevators[e].down_requests # {}
        /\ LastEvents("arrived") # {}
        /\ elevators[e].direction = UP
        /\ elevators[e].current_floor = min(prev.elevators[e].up_requests)

\* the direction from floor a to floor b
Toward(a, b) == IF b > a THEN UP ELSE DOWN

\* f is a pending floor of el that no pending floor is nearer than
Nearest(el, f) ==
    /\ f \in Pending(el)
    /\ \A p \in Pending(el) : abs(f - el.current_floor) <= abs(p - el.current_floor)

\* the nearest upward and the nearest downward floor are equally far
Tie(el) ==
    /\ el.up_requests # {}
    /\ el.down_requests # {}
    /\ min(el.up_requests) - el.current_floor = el.current_floor - max(el.down_requests)

\* C7: with direction IDLE and a request pending, get_next_floor returns the
\* pending floor nearest to current_floor and sets direction toward it (and
\* changes nothing else); on a tie it returns the upward floor and sets UP;
\* with only downward requests it returns their max and sets DOWN.  A tick that
\* schedules from IDLE moves toward that floor.
C7_IdleNearest ==
    \A e \in DOMAIN elevators :
        LET el == elevators[e]
            nf == get_next_floor(el)
            before == prev.elevators[e]
        IN  /\ (el.direction = IDLE /\ has_requests(el)) =>
                /\ nf.some
                /\ Nearest(el, nf.floor)
                /\ nf.el = [el EXCEPT !.direction = Toward(el.current_floor, nf.floor)]
                /\ Tie(el) => nf.floor = min(el.up_requests) /\ nf.el.direction = UP
                /\ el.up_requests = {} =>
                        nf.floor = max(el.down_requests) /\ nf.el.direction = DOWN
            /\ (LastOn("Elevator.tick", e) /\ before.direction = IDLE
                    /\ has_requests(before)) =>
                \A i \in LastEvents("moving") :
                    /\ Nearest(before, last.events[i].target_floor)
                    /\ last.events[i].direction
                            = Toward(before.current_floor, last.events[i].target_floor)
                    /\ Tie(before) => last.events[i].direction = UP

\* C7 witness: a tick scheduled from IDLE on a tie and moved up
C7_Witness ==
    \E e \in DOMAIN elevators :
        /\ LastOn("Elevator.tick", e)
        /\ prev.elevators[e].direction = IDLE
        /\ Tie(prev.elevators[e])
        /\ LastEvents("moving") # {}
        /\ elevators[e].current_floor = prev.elevators[e].current_floor + 1

\* the moving time of el once a tick of length delta_time has added its share
Accumulated(el, delta_time) ==
    IF el.is_moving THEN el.time_moving + delta_time ELSE el.time_moving

\* C4: a tick of an elevator out of maintenance whose accumulated moving time
\* is at least maintenance_threshold sets maintenance mode, emits
\* maintenance_started and resets moving time and timer to 0; in maintenance
\* every add_request returns False; a tick that leaves the rest short of
\* maintenance_rest_time keeps the mode; the tick on which the rest reaches
\* maintenance_rest_time emits maintenance_complete and clears the mode, and
\* after it a request for a valid floor other than the current one, under the
\* capacity threshold, is admitted again.
C4_MaintenanceCycle ==
    \A e \in DOMAIN elevators :
        LET before == prev.elevators[e]
            after == elevators[e]
        IN  /\ after.is_maintenance_mode =>
                \A f \in RequestFloors, k \in RequestType :
                    ~add_request(after, f, k).ret
            /\ LastOn("Elevator.tick", e) =>
                /\ (~before.is_maintenance_mode
                        /\ Accumulated(before, last.arg) >= before.maintenance_threshold) =>
                    /\ after.is_maintenance_mode
                    /\ after.time_moving = 0
                    /\ after.maintenance_timer = 0
                    /\ LastEvents("maintenance_started") # {}
                /\ (before.is_maintenance_mode
                        /\ before.maintenance_timer + last.arg
                                < before.maintenance_rest_time) =>
                    /\ after.is_maintenance_mode
                    /\ LastEvents("maintenance_complete") = {}
                /\ (before.is_maintenance_mode
                        /\ before.maintenance_timer + last.arg
                                >= before.maintenance_rest_time) =>
                    /\ LastEvents("maintenance_complete") # {}
                    /\ ~after.is_maintenance_mode
                    /\ \A f \in floors \ {after.current_floor} :
                        /\ add_request(after, f, CAR_CALL).ret
                        /\ 5 * after.occupancy < 4 * after.capacity =>
                                add_request(after, f, HALL_CALL).ret

\* the elevator Building.add_request is to consult for floor f, given the
\* elevators els: the nearest of those without pending floors if there is one,
\* else the one with the fewest pending floors; the first in insertion order
\* on a tie
Expected(els, f) ==
    LET idle == { e \in DOMAIN els : Pending(els[e]) = {} }
        dist(e) == abs(els[e].current_floor - f)
        load(e) == Cardinality(els[e].up_requests) + Cardinality(els[e].down_requests)
    IN  IF idle # {}
        THEN min({ e \in idle : \A o \in idle : dist(e) <= dist(o) })
        ELSE min({ e \in DOMAIN els : \A o \in DOMAIN els : load(e) <= load(o) })

\* C8: Building.add_request on a valid floor consults exactly the elevator
\* Expected names, never one with pending floors while one without exists, and
\* changes no other elevator; an admitted floor is pending in that elevator.
C8_BestElevator ==
    /\ \A f \in floors : _find_best_elevator(f) = Expected(elevators, f)
    /\ (last.op = "Building.add_request" /\ last.arg \in floors) =>
        LET chosen == Expected(prev.elevators, last.arg)
        IN  /\ last.elevator = chosen
            /\ (\E e \in DOMAIN elevators : Pending(prev.elevators[e]) = {}) =>
                    Pending(prev.elevators[chosen]) = {}
            /\ \A e \in DOMAIN elevators \ {chosen} : elevators[e] = prev.elevators[e]
            /\ last.ret => last.arg \in Pending(elevators[chosen])

\* C8 witness: the request was admitted by the second elevator, which had no
\* pending floors, although the first, which had some, stood nearer to the floor
C8_Witness ==
    /\ last.op = "Building.add_request"
    /\ last.ret
    /\ last.elevator = 2
    /\ Pending(prev.elevators[1]) # {}
    /\ Pending(prev.elevators[2]) = {}
    /\ abs(prev.elevators[1].current_floor - last.arg)
            < abs(prev.elevators[2].current_floor - last.arg)

\* C9: total_requests starts at 0, never decreases, grows by exactly 1 on each
\* Building.add_request that returns True and is unchanged by one that returns
\* False and by every tick; so it equals the number of successful calls so far.
C9_TotalRequests ==
    /\ total_requests = admitted
    /\ total_requests >= prev.total_requests
    /\ last.op = "init" => total_requests = 0
    /\ last.op = "Building.add_request" =>
            total_requests = prev.total_requests + (IF last.ret THEN 1 ELSE 0)
    /\ last.op = "Building.tick" => total_requests = prev.total_requests

\* C9 witness: after two admitted requests, a request for a valid floor was
\* rejected and the counter stayed at 2
C9_Witness ==
    /\ last.op = "Building.add_request"
    /\ last.arg \in floors
    /\ ~last.ret
    /\ total_requests = 2
    /\ prev.total_requests = 2

\* C11: for every configured floor list, with gaps or without floor 0, the
\* current floor of every elevator is a member of the floor set in every
\* reachable state: at construction and after every tick.
C11_CurrentFloorValid ==
    \A e \in DOMAIN elevators : elevators[e].current_floor \in floors

\* the occupancy the last call asked for, given the elevator before it
Wanted(before) ==
    CASE last.op = "Elevator.add_passengers" -> before.occupancy + last.arg
      [] last.op = "Elevator.remove_passengers" -> before.occupancy - last.arg
      [] OTHER -> last.arg

\* C12: for every integer n, negative ones included, add_passengers(n),
\* remove_passengers(n) and set_occupancy(n) return False and leave occupancy
\* unchanged when the resulting occupancy would lie outside 0..capacity, and
\* otherwise apply the change and return True; so 0 <= occupancy <= capacity
\* after any sequence of these calls.
C12_OccupancyBounds ==
    \A e \in DOMAIN elevators :
        LET before == prev.elevators[e]
            after == elevators[e]
        IN  /\ 0 <= after.occupancy
            /\ after.occupancy <= after.capacity
            /\ (last.elevator = e
                    /\ last.op \in {"Elevator.add_passengers",
                                    "Elevator.remove_passengers",
                                    "Elevator.set_occupancy"}) =>
                IF Wanted(before) \in 0..before.capacity
                THEN last.ret /\ after.occupancy = Wanted(before)
                ELSE ~last.ret /\ after = before

\* C14: every tick changes current_floor by at most one level, and by exactly
\* one precisely when it emits a moving event; that event has
\* to_floor = from_floor + direction, to_floor = the floor after the tick,
\* from_floor = the floor before it, direction 1 or -1, and target_floor = the
\* floor get_next_floor returns, on the direction side of from_floor.  The first
\* tick of an elevator at floor 0 whose only request is floor 3 emits exactly
\* moving{from 0, to 1, direction 1, target 3}.
C14_OneFloorPerTick ==
    \A e \in DOMAIN elevators :
        LET before == prev.elevators[e]
            after == elevators[e]
        IN  LastOn("Elevator.tick", e) =>
                /\ abs(after.current_floor - before.current_floor) <= 1
                /\ Cardinality(LastEvents("moving")) <= 1
                /\ after.current_floor # before.current_floor
                        <=> LastEvents("moving") # {}
                /\ \A i \in LastEvents("moving") :
                    LET ev == last.events[i]
                    IN  /\ ev.to_floor = ev.from_floor + ev.direction
                        /\ ev.to_floor = after.current_floor
                        /\ ev.from_floor = before.current_floor
                        /\ ev.direction \in {UP, DOWN}
                        /\ get_next_floor(before).some
                        /\ ev.target_floor = get_next_floor(before).floor
                        /\ (ev.target_floor - ev.from_floor) * ev.direction > 0
                /\ (before.current_floor = 0 /\ before.direction = IDLE
                        /\ ~before.is_moving /\ ~before.is_maintenance_mode
                        /\ before.up_requests = {3} /\ before.down_requests = {}) =>
                    last.events = << [type |-> "moving", from_floor |-> 0,
                                      to_floor |-> 1, direction |-> 1,
                                      target_floor |-> 3] >>

\* C14 witness: the first tick of an elevator at floor 0 whose only request is
\* floor 3 took it to floor 1
C14_Witness ==
    \E e \in DOMAIN elevators :
        /\ LastOn("Elevator.tick", e)
        /\ prev.elevators[e].current_floor = 0
        /\ prev.elevators[e].direction = IDLE
        /\ prev.elevators[e].up_requests = {3}
        /\ prev.elevators[e].down_requests = {}
        /\ LastEvents("moving") # {}
        /\ elevators[e].current_floor = 1
        /\ elevators[e].up_requests = {3}

\* the last tick emitted an arrived event for floor f
ArrivedAt(f) ==
    /\ last.op = "Elevator.tick"
    /\ \E i \in LastEvents("arrived") : last.events[i].floor = f

\* C13 as stated: every time an elevator serves its last pending request, the
\* arrived event is followed on a later tick by a became_idle event of that
\* elevator.
C13_ArrivedThenIdle ==
    (LastEvents("arrived") # {} /\ Pending(elevators[1]) = {})
        ~> (LastEvents("became_idle") # {})

\* floor f is pending in the elevator
IsPending(f) == f \in Pending(elevators[1])

\* floor f has just been served: the last tick brought the elevator there,
\* emitted arrived for it and took it out of the pending sets
Served(f) ==
    /\ ArrivedAt(f)
    /\ elevators[1].current_floor = f
    /\ ~IsPending(f)

\* the last call was an admission
Admission == last.op = "Elevator.add_request" /\ last.ret

\* C15: with a rest time below the maintenance threshold, if ticks keep being
\* executed, every floor admitted into the pending sets is eventually
\* served, whatever is admitted in between and whatever maintenance intervenes;
\* and time and again either nothing is pending or a request has just been
\* admitted, so once admissions stop the pending sets empty.
C15_EveryRequestServed ==
    []<><<Ticking>>_vars =>
        /\ \A f \in 0..MaxFloor : IsPending(f) ~> Served(f)
        /\ []<>(Pending(elevators[1]) = {} \/ Admission)

\* C15 witness: the tick that completed a maintenance rest went on to arrive at
\* a pending floor while another floor is still pending
C15_Witness ==
    /\ last.op = "Elevator.tick"
    /\ prev.elevators[1].is_maintenance_mode
    /\ LastEvents("maintenance_complete") # {}
    /\ \E f \in prev.elevators[1].up_requests : Served(f)
    /\ Pending(elevators[1]) # {}

\* the events of the elevators from the i-th on, each list as that elevator's
\* own tick returns it from the state els, with the elevator's id added
RECURSIVE OwnEvents(_, _, _)
OwnEvents(i, els, delta_time) ==
    IF i > Len(els) THEN <<>>
    ELSE LET own == tick(els[i], delta_time).events
         IN  [k \in 1..Len(own) |->
                    [x \in DOMAIN own[k] \cup {"elevator_id"} |->
                        IF x = "elevator_id" THEN els[i].id ELSE own[k][x]]]
             \o OwnEvents(i + 1, els, delta_time)

\* C16: Building.tick advances every elevator exactly once with the same
\* delta_time, and returns the concatenation, in insertion order, of the
\* elevators' own event lists, each in its own order, every event carrying the
\* id of the elevator that produced it; no event is dropped or duplicated.
C16_BuildingTick ==
    last.op = "Building.tick" =>
        /\ \A e \in DOMAIN elevators :
                elevators[e] = tick(prev.elevators[e], last.arg).el
        /\ last.events = OwnEvents(1, prev.elevators, last.arg)

\* C16 witness: a Building.tick in which the first elevator produced two events
\* and the second one, returned in that order
C16_Witness ==
    /\ last.op = "Building.tick"
    /\ Len(last.events) = 3
    /\ last.events[1].elevator_id = 1
    /\ last.events[2].elevator_id = 1
    /\ last.events[2].type = "arrived"
    /\ last.events[3].elevator_id = 2
    /\ last.events[3].type = "moving"

\* the orders in which n elevators can be ticked
Orders(n) == { p \in [1..n -> 1..n] : \A i, j \in 1..n : p[i] = p[j] => i = j }

\* the elevators els after the elevators order[i], order[i+1], ... were ticked
RECURSIVE TickInOrder(_, _, _, _)
TickInOrder(i, order, els, delta_time) ==
    IF i > Len(order) THEN els
    ELSE TickInOrder(i + 1, order,
                     [els EXCEPT ![order[i]] = tick(els[order[i]], delta_time).el],
                     delta_time)

\* C17: within Building.tick each elevator's state afterwards is the tick of
\* its own state before, whatever the other elevators are, so ticking the
\* elevators in any order gives the same states; and Building.add_request
\* changes the elevator it selected at most and no elevator when it returns
\* False.
C17_NoInteraction ==
    /\ \A dt \in DeltaTimes : \A order \in Orders(Len(elevators)) :
            TickInOrder(1, order, elevators, dt) = Building_tick(dt).elevators
    /\ last.op = "Building.tick" =>
            \A e \in DOMAIN elevators :
                elevators[e] = tick(prev.elevators[e], last.arg).el
    /\ last.op = "Building.add_request" =>
            /\ \A e \in DOMAIN elevators \ {last.elevator} :
                    elevators[e] = prev.elevators[e]
            /\ ~last.ret => elevators = prev.elevators

\* C17 witness: a request was admitted by the first elevator while the second,
\* which is travelling with floors pending, stayed as it was
C17_Witness ==
    /\ last.op = "Building.add_request"
    /\ last.ret
    /\ last.elevator = 1
    /\ elevators[1] # prev.elevators[1]
    /\ elevators[2].is_moving
    /\ Pending(elevators[2]) # {}
    /\ elevators[2] = prev.elevators[2]

\* C18: Elevator.get_status and Building.get_building_status change no field
\* of any elevator nor of the building, and a second call made right after the
\* first returns the same value.
C18_StatusPure ==
    /\ \A e \in DOMAIN elevators : get_status(elevators[e]).el = elevators[e]
    /\ get_building_status.elevators = elevators
    /\ last.op \in {"Elevator.get_status", "Building.get_building_status"} =>
            /\ elevators = prev.elevators
            /\ total_requests = prev.total_requests
    /\ last.op = "Elevator.get_status" =>
            get_status(elevators[last.elevator]).ret = last.ret
    /\ last.op = "Building.get_building_status" =>
            get_building_status.ret = last.ret

\* C18 witness: the building's snapshot was read while an elevator is in
\* maintenance with a floor pending and a request has been counted
C18_Witness ==
    /\ last.op = "Building.get_building_status"
    /\ last.ret.total_requests > 0
    /\ \E e \in DOMAIN elevators :
            /\ last.ret.elevators[e].is_maintenance_mode
            /\ last.ret.elevators[e].up_requests # <<>>

\* what every ElevatorSimulator.tick does, by C20: Building.tick once, one
\* record_events call, with the batch and the building's snapshot after the
\* tick, exactly when the batch is not empty, one more tick counted and
\* tick_duration added to the clock
TickEffect ==
    last.op = "ElevatorSimulator.tick" =>
        LET b == Building_tick_loop(1, prev.elevators, <<>>, simulator.tick_duration)
        IN  /\ elevators = b.elevators
            /\ last.events = b.events
            /\ total_requests = prev.total_requests
            /\ IF last.events # <<>>
               THEN /\ sink.calls = prev.sink.calls + 1
                    /\ sink.events = last.events
                    /\ sink.building_status = get_building_status.ret
               ELSE sink = prev.sink
            /\ simulator.tick_count = prev.simulator.tick_count + 1
            /\ simulator.simulation_time
                    = float_add(prev.simulator.simulation_time, simulator.tick_duration)

\* C20 as stated: TickEffect, and simulation_time = tick_count * tick_duration
\* in every reachable state.
C20_Original ==
    /\ TickEffect
    /\ simulator.simulation_time
            = float_mul(simulator.tick_count, simulator.tick_duration)

\* tick_duration added n times to 0.0
RECURSIVE float_sum(_, _)
float_sum(n, d) == IF n = 0 THEN 0 ELSE float_add(float_sum(n - 1, d), d)

\* C20 amended: TickEffect, with the addition a floating-point one; so
\* simulation_time is tick_duration added tick_count times, which equals
\* tick_count * tick_duration as long as every multiple of tick_duration up to
\* there is a float (as with tick_duration 1.0).
C20_SimulatorTick ==
    /\ TickEffect
    /\ simulator.simulation_time
            = float_sum(simulator.tick_count, simulator.tick_duration)
    /\ (\A k \in 1..simulator.tick_count :
                float(k * simulator.tick_duration) = k * simulator.tick_duration) =>
            simulator.simulation_time = simulator.tick_count * simulator.tick_duration

\* C20 witness: a tick that returned no event left the collector with the
\* batch of an earlier tick and brought the clock to a value other than
\* tick_count * tick_duration
C20_Witness ==
    /\ last.op = "ElevatorSimulator.tick"
    /\ last.events = <<>>
    /\ sink.calls > 0
    /\ sink = prev.sink
    /\ simulator.simulation_time
            # float_mul(simulator.tick_count, simulator.tick_duration)

\* C19: once stop_simulation() has been called during a run loop, the loop
\* begins no further iteration: its condition never again lets a tick start.
C19_StopAtTickBoundary == ~run.late

\* run_simulation alone honours the stop: only run_scenario goes on
RunSimulationStops == run.late => run.loop = "run_scenario"

\* C21: malformed construction input is rejected by the constructors, so no
\* call of add_request, is_near_capacity, get_status or tick on an elevator
\* that exists raises an error.
C21_FailFast == last.raised = "none"

\* elevator el turns down a request for the valid floor f of kind k: it
\* stands at f, is over the capacity threshold for a hall call, or is in
\* maintenance
TurnsDown(el, f, k) ==
    \/ f = el.current_floor
    \/ k = HALL_CALL /\ 5 * el.occupancy >= 4 * el.capacity
    \/ el.is_maintenance_mode

\* C22: Building.add_request returns True exactly when the one elevator it
\* selects admits the request; with no elevators it returns False; and when
\* the selected elevator turns the request down no elevator changes, whether
\* or not another elevator would have admitted it.
C22_OneElevatorConsulted ==
    last.op = "Building.add_request" =>
        IF DOMAIN prev.elevators = {}
        THEN ~last.ret /\ elevators = prev.elevators
        ELSE LET chosen == Expected(prev.elevators, last.arg)
                 r == add_request(prev.elevators[chosen], last.arg, last.kind)
             IN  /\ last.ret = r.ret
                 /\ last.arg \in floors =>
                        /\ last.elevator = chosen
                        /\ last.ret = ~TurnsDown(prev.elevators[chosen], last.arg,
                                                 last.kind)
                 /\ elevators = [prev.elevators EXCEPT ![chosen] = r.el]
                 /\ ~last.ret => elevators = prev.elevators

\* the last call was a Building.add_request for a valid floor that the selected
\* elevator turned down while the other one would have admitted it
PassedOver ==
    /\ last.op = "Building.add_request"
    /\ ~last.ret
    /\ last.arg \in floors
    /\ last.elevator # 0
    /\ \E e \in DOMAIN elevators \ {last.elevator} :
            add_request(prev.elevators[e], last.arg, last.kind).ret
    /\ elevators = prev.elevators

\* C22 witness: a hall call was turned down by the selected elevator, which
\* was over the capacity threshold and neither at the floor nor in
\* maintenance, while the other elevator would have admitted it
C22_Witness ==
    /\ PassedOver
    /\ last.kind = HALL_CALL
    /\ prev.elevators[last.elevator].occupancy = 1
    /\ prev.elevators[last.elevator].current_floor # last.arg
    /\ ~prev.elevators[last.elevator].is_maintenance_mode

\* C23: no elevator is ever in maintenance mode with its is_moving flag set.
C23_NoMaintenanceWhileMoving ==
    \A e \in DOMAIN elevators :
        ~(elevators[e].is_maintenance_mode /\ elevators[e].is_moving)

\* C24: a tick in which the elevator emits maintenance_started or
\* maintenance_mode emits that event alone and leaves current_floor, direction
\* and both pending sets as they were, pending requests or not; and a
\* maintenance_mode event carries remaining_time = maintenance_rest_time minus
\* the timer, which is positive.
C24_MaintenancePreempts ==
    \A e \in DOMAIN elevators :
        (/\ LastOn("Elevator.tick", e)
         /\ LastEvents("maintenance_started") \cup LastEvents("maintenance_mode") # {}) =>
            LET before == prev.elevators[e]
                after == elevators[e]
            IN  /\ Len(last.events) = 1
                /\ after.current_floor = before.current_floor
                /\ after.direction = before.direction
                /\ after.up_requests = before.up_requests
                /\ after.down_requests = before.down_requests
                /\ \A i \in LastEvents("maintenance_mode") :
                        /\ last.events[i].remaining_time
                                = after.maintenance_rest_time - after.maintenance_timer
                        /\ last.events[i].remaining_time > 0

\* the elements of a sequence
Elements(seq) == { seq[i] : i \in 1..Len(seq) }

\* C25: in a tick an arrived event comes only right after a moving event with
\* to_floor = target_floor, and a moving event with to_floor = target_floor is
\* followed by one; arrived.floor is that floor; the floor leaves the pending
\* set that held it and nothing else leaves; the tags hold exactly one of
\* arrived_up and arrived_down, and stopped exactly when nothing is pending
\* afterwards, and then the elevator is IDLE and not moving.  A moving event
\* with to_floor # target_floor comes without arrived and removes nothing.
C25_Arrival ==
    \A e \in DOMAIN elevators :
        LastOn("Elevator.tick", e) =>
            LET before == prev.elevators[e]
                after == elevators[e]
            IN  /\ \A i \in LastEvents("arrived") :
                        /\ i > 1
                        /\ last.events[i - 1].type = "moving"
                        /\ last.events[i - 1].to_floor = last.events[i - 1].target_floor
                        /\ last.events[i].floor = last.events[i - 1].to_floor
                        /\ last.events[i].floor = after.current_floor
                        /\ last.events[i].floor \in Pending(before)
                        /\ after.up_requests = before.up_requests \ {last.events[i].floor}
                        /\ after.down_requests
                                = before.down_requests \ {last.events[i].floor}
                        /\ LET tags == Elements(last.events[i].arrival_events)
                           IN  /\ "arrived_up" \in tags
                                    <=> last.events[i].floor \in before.up_requests
                               /\ "arrived_down" \in tags
                                    <=> last.events[i].floor \in before.down_requests
                               /\ Cardinality(tags \cap {"arrived_up", "arrived_down"}) = 1
                               /\ "stopped" \in tags <=> Pending(after) = {}
                               /\ "stopped" \in tags =>
                                    after.direction = IDLE /\ ~after.is_moving
                /\ \A i \in LastEvents("moving") :
                        IF last.events[i].to_floor = last.events[i].target_floor
                        THEN /\ i < Len(last.events)
                             /\ last.events[i + 1].type = "arrived"
                        ELSE /\ LastEvents("arrived") = {}
                             /\ after.up_requests = before.up_requests
                             /\ after.down_requests = before.down_requests

\* C25 witness: a tick arrived at a downward floor, tagged arrived_down alone,
\* with another floor still pending, and the elevator travels on
C25_Witness ==
    \E e \in DOMAIN elevators :
        /\ LastOn("Elevator.tick", e)
        /\ \E i \in LastEvents("arrived") :
                last.events[i].arrival_events = <<"arrived_down">>
        /\ Pending(elevators[e]) # {}
        /\ elevators[e].is_moving

\* the events of the given type in a list of events
OfType(events, type) == { i \in 1..Len(events) : events[i].type = type }

\* el, out of maintenance, has f as its only pending floor, d >= 1 floors away:
\* whatever the lengths of the next d ticks, as long as none of them brings the
\* moving time to the maintenance threshold, each emits one moving event and
\* nothing else, but the d-th, which also emits arrived for f and leaves nothing
\* pending
RECURSIVE ServedWithin(_, _, _)
ServedWithin(el, f, d) ==
    \A delta_time \in DeltaTimes :
        Accumulated(el, delta_time) < el.maintenance_threshold =>
            LET t == tick(el, delta_time)
            IN  /\ Cardinality(OfType(t.events, "moving")) = 1
                /\ t.events[1].type = "moving"
                /\ abs(f - t.el.current_floor) = d - 1
                /\ ~t.el.is_maintenance_mode
                /\ IF d = 1
                   THEN /\ Len(t.events) = 2
                        /\ t.events[2].type = "arrived"
                        /\ t.events[2].floor = f
                        /\ Pending(t.el) = {}
                   ELSE /\ Len(t.events) = 1
                        /\ Pending(t.el) = {f}
                        /\ ServedWithin(t.el, f, d - 1)

\* C26: an elevator out of maintenance whose only pending floor is d >= 1
\* floors away, and to which nothing more is admitted, emits one moving event
\* on each of the next d ticks and arrived for that floor on the d-th, after
\* which nothing is pending, unless the maintenance threshold is reached on
\* the way; d is at most the height of the building.
C26_BoundedResponse ==
    \A e \in DOMAIN elevators :
        LET el == elevators[e]
        IN  (Cardinality(Pending(el)) = 1 /\ ~el.is_maintenance_mode) =>
                LET f == CHOOSE p \in Pending(el) : TRUE
                    d == abs(f - el.current_floor)
                IN  /\ d >= 1
                    /\ d <= MaxFloor
                    /\ ServedWithin(el, f, d)

\* C26 witness: floor 3 was the only pending floor of the elevator, which the
\* third tick of one second since construction has just brought there
C26_Witness ==
    \E e \in DOMAIN elevators :
        /\ LastOn("Elevator.tick", e)
        /\ prev.elevators[e].up_requests = {3}
        /\ prev.elevators[e].down_requests = {}
        /\ ArrivedAt(3)
        /\ Pending(elevators[e]) = {}
        /\ elevators[e].time_idle = 1
        /\ elevators[e].time_moving = 2

\* C27: every floor pending upward lies above current_floor and every floor
\* pending downward lies below it.
C27_PendingSides ==
    \A e \in DOMAIN elevators :
        /\ \A f \in elevators[e].up_requests : f > elevators[e].current_floor
        /\ \A f \in elevators[e].down_requests : f < elevators[e].current_floor

\* C27 witness: an elevator travelling up with a floor pending above admitted
\* a request for the floor it has just left
C27_Witness ==
    \E e \in DOMAIN elevators :
        /\ LastOn("Elevator.add_request", e)
        /\ last.ret
        /\ elevators[e].direction = UP
        /\ elevators[e].is_moving
        /\ elevators[e].up_requests # {}
        /\ last.arg = elevators[e].current_floor - 1
        /\ last.arg \in elevators[e].down_requests

\* C28: an elevator whose is_moving flag is set has a pending request.
C28_MovingHasRequests ==
    \A e \in DOMAIN elevators :
        elevators[e].is_moving => Pending(elevators[e]) # {}

\* C28 witness: a moving elevator served its last pending floor, and the tick
\* left it not moving
C28_Witness ==
    \E e \in DOMAIN elevators :
        /\ LastOn("Elevator.tick", e)
        /\ prev.elevators[e].is_moving
        /\ Cardinality(Pending(prev.elevators[e])) = 1
        /\ Pending(elevators[e]) = {}
        /\ ~elevators[e].is_moving

\* C29: between the operations of a building, the direction of an elevator is
\* IDLE exactly when its is_moving flag is not set.
C29_IdleIffNotMoving ==
    \A e \in DOMAIN elevators :
        elevators[e].direction = IDLE <=> ~elevators[e].is_moving

\* C29 witness: a Building.tick set one elevator off, which now moves in a
\* direction, while the other stands IDLE
C29_Witness ==
    /\ last.op = "Building.tick"
    /\ \E e, o \in DOMAIN elevators :
            /\ prev.elevators[e].direction = IDLE
            /\ ~prev.elevators[e].is_moving
            /\ elevators[e].direction # IDLE
            /\ elevators[e].is_moving
            /\ elevators[o].direction = IDLE
            /\ ~elevators[o].is_moving

\* the number of floors pending in the elevators els
RECURSIVE PendingCount(_, _)
PendingCount(els, i) ==
    IF i > Len(els) THEN 0
    ELSE Cardinality(els[i].up_requests) + Cardinality(els[i].down_requests)
         + PendingCount(els, i + 1)

\* C30: a Building.add_request for a floor already pending in the elevator it
\* selects, which that elevator has no other reason to turn down, returns True
\* and leaves every pending set as it was, while total_requests grows by 1.
C30_ReAdmission ==
    (last.op = "Building.add_request" /\ DOMAIN prev.elevators # {}) =>
        LET chosen == Expected(prev.elevators, last.arg)
        IN  (/\ last.arg \in Pending(prev.elevators[chosen])
             /\ ~TurnsDown(prev.elevators[chosen], last.arg, last.kind)) =>
                /\ last.ret
                /\ last.elevator = chosen
                /\ elevators = prev.elevators
                /\ total_requests = prev.total_requests + 1

\* C30 witness: before any tick, a request for a floor already pending in the
\* selected elevator was admitted, so that total_requests is more than the
\* number of pending floors, which is the number of arrivals still to come
C30_Witness ==
    /\ last.op = "Building.add_request"
    /\ last.ret
    /\ last.arg \in Pending(prev.elevators[last.elevator])
    /\ elevators = prev.elevators
    /\ \A e \in DOMAIN elevators :
            elevators[e].time_idle = 0 /\ elevators[e].time_moving = 0
    /\ total_requests > PendingCount(elevators, 1)

\* C31: between two maintenance_started events of an elevator there is a
\* moving event of it.  An elevator in maintenance has emitted
\* maintenance_started and no moving event since, so no tick that begins in
\* maintenance emits maintenance_started, unless a moving event precedes it in
\* that tick.
C31_MovementBetweenRests ==
    \A e \in DOMAIN elevators :
        (LastOn("Elevator.tick", e) /\ prev.elevators[e].is_maintenance_mode) =>
            \A i \in LastEvents("maintenance_started") :
                \E j \in LastEvents("moving") : j < i

\* C32: a floor leaves a pending set of an elevator only in a tick of that
\* elevator (its own, or within Building.tick) that ends at that floor and
\* emits arrived for it; no other call,
\* and no tick that starts, continues or completes maintenance or turns the
\* elevator round without arriving, removes a pending floor.
C32_RemovedOnlyByArrival ==
    \A e \in DOMAIN elevators :
        LET before == prev.elevators[e]
            after == elevators[e]
        IN  \A f \in (before.up_requests \ after.up_requests)
                        \cup (before.down_requests \ after.down_requests) :
                /\ LastOn("Elevator.tick", e) \/ last.op = "Building.tick"
                /\ after.current_floor = f
                /\ \E i \in LastEvents("arrived") :
                        /\ last.events[i].floor = f
                        /\ last.op = "Building.tick" =>
                                last.events[i].elevator_id = after.id

\* C32 witness: a tick that completed a maintenance rest turned the elevator
\* round and moved it, and every floor pending before is still pending
C32_Witness ==
    \E e \in DOMAIN elevators :
        /\ LastOn("Elevator.tick", e)
        /\ LastEvents("maintenance_complete") # {}
        /\ LastEvents("moving") # {}
        /\ prev.elevators[e].direction = UP
        /\ elevators[e].direction = DOWN
        /\ Pending(prev.elevators[e]) # {}
        /\ elevators[e].up_requests = prev.elevators[e].up_requests
        /\ elevators[e].down_requests = prev.elevators[e].down_requests

====
